---- MODULE Spec2Model ----
(***************************************************************************)
(* A model of SIFT's src/main.rs: the Difference-of-Gaussians filter       *)
(* (difference_of_gaussian and its helpers gaussian_filter, clamp,         *)
(* color_to_vector, vector_to_color) and the driver main, which filters    *)
(* every input image and stacks the results into output.jpg.               *)
(*                                                                         *)
(* The filter computes in f32.  An f32 is modelled bit for bit as the      *)
(* record [s, e, m] of its IEEE-754 binary32 fields (sign, biased          *)
(* exponent, fraction), and *, /, +, - round to nearest, ties to even, as  *)
(* the hardware does.  TLC's integers are 32 bits wide, so the 48-bit      *)
(* product of two significands is computed in 12-bit limbs.                *)
(***************************************************************************)
EXTENDS Integers, Sequences, FiniteSets, TLC

(***************************************************************************)
(* f32: representation                                                     *)
(***************************************************************************)

\* The width of an f32 significand with its hidden bit, and the exponent of
\* the least significant bit of a subnormal.
SigBits == 24
MinExp == -149
ExpBias == 150
ExpMax == 255

Hidden == 2^(SigBits - 1)

F32(s, e, m) == [s |-> s, e |-> e, m |-> m]

NaN == F32(0, ExpMax, 1)
Inf(s) == F32(s, ExpMax, 0)
Zero(s) == F32(s, 0, 0)

IsNaN(f) == f.e = ExpMax /\ f.m # 0
IsInf(f) == f.e = ExpMax /\ f.m = 0
IsZero(f) == f.e = 0 /\ f.m = 0

\* The significand (an integer) and the exponent of its least significant
\* bit: a finite f is (-1)^f.s * Sig(f) * 2^Exp(f).
Sig(f) == IF f.e = 0 THEN f.m ELSE f.m + Hidden
Exp(f) == IF f.e = 0 THEN MinExp ELSE f.e - ExpBias

RECURSIVE BitLen(_)
BitLen(n) == IF n = 0 THEN 0 ELSE 1 + BitLen(n \div 2)

\* n with its least significant bit set when tail # 0: the bit then stands
\* for a nonzero tail below it (a "sticky" bit).
Jam(n, tail) == IF tail = 0 THEN n ELSE (n - (n % 2)) + 1

\* n shifted right by d bits, any bit shifted out jammed into the result.
ShiftRightJam(n, d) ==
    IF d = 0 THEN n
    ELSE IF d >= 31 THEN (IF n = 0 THEN 0 ELSE 1)
    ELSE Jam(n \div 2^d, n % 2^d)

\* The f32 of sign s and significand q < 2^25 whose least significant bit has
\* exponent xe: subnormal below 2^23, infinite past the largest exponent.
PackNormal(s, q, xe) ==
    IF xe + ExpBias >= ExpMax THEN Inf(s)
    ELSE F32(s, xe + ExpBias, q - Hidden)

Pack(s, q, xe) ==
    IF q = 0 THEN Zero(s)
    ELSE IF q = 2 * Hidden THEN PackNormal(s, Hidden, xe + 1)
    ELSE IF q < Hidden THEN F32(s, 0, q)
    ELSE PackNormal(s, q, xe)

\* Quotient q and remainder r of a division by 2 * half, to nearest, ties to
\* even.
RoundUp(q, r, half) ==
    IF r > half \/ (r = half /\ q % 2 = 1) THEN q + 1 ELSE q

\* n / 2^sh to nearest, ties to even, for 0 <= n < 2^31.
ShiftRound(n, sh) ==
    IF sh <= 0 THEN n * 2^(0 - sh)
    ELSE IF sh >= 32 THEN 0
    ELSE IF sh = 31 THEN (IF n > 2^30 THEN 1 ELSE 0)
    ELSE RoundUp(n \div 2^sh, n % 2^sh, 2^(sh - 1))

\* The bits to drop from an n of len bits whose least significant bit has
\* exponent x: down to 24 bits, or to exponent -149 if that comes first.
ShiftOf(len, x) ==
    IF x + (len - SigBits) < MinExp THEN MinExp - x ELSE len - SigBits

RoundShift(s, n, x, sh) == Pack(s, ShiftRound(n, sh), x + sh)

\* The f32 nearest to (-1)^s * n * 2^x, ties to even, for 0 <= n < 2^31.
\* n's least significant bit may be sticky; the operations below only let it
\* be when n has at least 26 bits.
RoundPack(s, n, x) ==
    IF n = 0 THEN Zero(s) ELSE RoundShift(s, n, x, ShiftOf(BitLen(n), x))

\* An integer of magnitude below 2^31 as f32 (Rust's `as f32`).
IntToF32(n) == IF n < 0 THEN RoundPack(1, 0 - n, 0) ELSE RoundPack(0, n, 0)

Neg(f) == IF IsNaN(f) THEN NaN ELSE F32(1 - f.s, f.e, f.m)

(***************************************************************************)
(* f32: multiplication                                                     *)
(***************************************************************************)
Limb == 2^12

\* The sum hh * 2^24 + mid * 2^12 + ll as <<hi, lo>> with lo < 2^24.
Carry(hi, low) == <<hi + (low \div (2 * Hidden)), low % (2 * Hidden)>>
Limbs(hh, mid, ll) == Carry(hh + (mid \div Limb), (mid % Limb) * Limb + ll)

\* The product of two significands (each below 2^24), in 12-bit limbs.
WideMul(a, b) ==
    Limbs((a \div Limb) * (b \div Limb),
          (a \div Limb) * (b % Limb) + (a % Limb) * (b \div Limb),
          (a % Limb) * (b % Limb))

\* The low bits to drop from a product whose high part has hl bits, for the
\* rest to fit 30 bits.
Drop(hl) == IF hl + SigBits > 30 THEN hl + SigBits - 30 ELSE 0

MulDrop(s, hi, lo, x, d) ==
    RoundPack(s, Jam(hi * 2^(SigBits - d) + (lo \div 2^d), lo % 2^d), x + d)

MulWide(s, p, x) == MulDrop(s, p[1], p[2], x, Drop(BitLen(p[1])))

MulSigned(s, f, g) ==
    IF IsInf(f) \/ IsInf(g) THEN Inf(s)
    ELSE IF IsZero(f) \/ IsZero(g) THEN Zero(s)
    ELSE MulWide(s, WideMul(Sig(f), Sig(g)), Exp(f) + Exp(g))

Mul(f, g) ==
    IF IsNaN(f) \/ IsNaN(g) THEN NaN
    ELSE IF (IsInf(f) /\ IsZero(g)) \/ (IsZero(f) /\ IsInf(g)) THEN NaN
    ELSE MulSigned((f.s + g.s) % 2, f, g)

(***************************************************************************)
(* f32: division                                                           *)
(***************************************************************************)
\* Long division: <<q, r>> after k more quotient bits, from quotient q and
\* remainder r < b.
RECURSIVE LongDiv(_, _, _, _)
LongDiv(q, r, b, k) ==
    IF k = 0 THEN <<q, r>>
    ELSE IF 2 * r >= b THEN LongDiv(2 * q + 1, 2 * r - b, b, k - 1)
    ELSE LongDiv(2 * q, 2 * r, b, k - 1)

\* The number of quotient bits computed below the binary point.
DivBits == 27

\* The left shift that makes a significand 24 bits wide.
Norm(f) == SigBits - BitLen(Sig(f))

DivQR(s, qr, x) == RoundPack(s, Jam(2 * qr[1], qr[2]), x)

\* a / b * 2^x for 24-bit a and b
DivNorm(s, a, b, x) == DivQR(s, LongDiv(a \div b, a % b, b, DivBits), x - DivBits - 1)

DivSigned(s, f, g) ==
    IF IsInf(f) \/ IsZero(g) THEN Inf(s)
    ELSE IF IsZero(f) \/ IsInf(g) THEN Zero(s)
    ELSE DivNorm(s, Sig(f) * 2^Norm(f), Sig(g) * 2^Norm(g),
                 (Exp(f) - Norm(f)) - (Exp(g) - Norm(g)))

Div(f, g) ==
    IF IsNaN(f) \/ IsNaN(g) THEN NaN
    ELSE IF (IsInf(f) /\ IsInf(g)) \/ (IsZero(f) /\ IsZero(g)) THEN NaN
    ELSE DivSigned((f.s + g.s) % 2, f, g)

(***************************************************************************)
(* f32: addition and subtraction                                           *)
(***************************************************************************)
\* Three extra bits (guard, round, sticky) below each significand.
GuardBits == 3

\* (-1)^sa * a * 2^x + (-1)^sb * b * 2^x
AddAligned(sa, a, sb, b, x) ==
    IF sa = sb THEN RoundPack(sa, a + b, x)
    ELSE IF a = b THEN Zero(0)
    ELSE RoundPack(IF a > b THEN sa ELSE sb, IF a > b THEN a - b ELSE b - a, x)

\* f + g for finite nonzero f, g with Exp(f) >= Exp(g).
AddOrdered(f, g) ==
    AddAligned(f.s, Sig(f) * 2^GuardBits,
               g.s, ShiftRightJam(Sig(g) * 2^GuardBits, Exp(f) - Exp(g)),
               Exp(f) - GuardBits)

Add(f, g) ==
    IF IsNaN(f) \/ IsNaN(g) THEN NaN
    ELSE IF IsInf(f) THEN (IF IsInf(g) /\ g.s # f.s THEN NaN ELSE f)
    ELSE IF IsInf(g) THEN g
    ELSE IF IsZero(f) THEN (IF IsZero(g) THEN Zero(IF f.s = 1 /\ g.s = 1 THEN 1 ELSE 0) ELSE g)
    ELSE IF IsZero(g) THEN f
    ELSE IF Exp(f) >= Exp(g) THEN AddOrdered(f, g)
    ELSE AddOrdered(g, f)

Sub(f, g) == Add(f, Neg(g))

(***************************************************************************)
(* f32: comparison and conversion to integers                              *)
(***************************************************************************)
\* f < g on finite or infinite magnitudes of the same sign s = 0.
MagLt(f, g) == f.e < g.e \/ (f.e = g.e /\ f.m < g.m)

\* Rust's `<` on f32: false whenever an operand is NaN; -0 = +0.
Lt(f, g) ==
    IF IsNaN(f) \/ IsNaN(g) THEN FALSE
    ELSE IF IsZero(f) /\ IsZero(g) THEN FALSE
    ELSE IF f.s # g.s THEN f.s = 1
    ELSE IF f.s = 0 THEN MagLt(f, g)
    ELSE MagLt(g, f)

Gt(f, g) == Lt(g, f)

\* n * 2^x truncated toward zero and saturated at max, for x >= 0 and x < 0.
ShiftLeftSat(n, x, max) ==
    IF x + BitLen(n) > 31 THEN max
    ELSE IF n * 2^x > max THEN max ELSE n * 2^x

ShiftRightSat(n, d, max) ==
    IF d >= 31 THEN 0
    ELSE IF n \div 2^d > max THEN max ELSE n \div 2^d

\* The integer part of |f| (truncation toward zero), saturated at max.
TruncMag(f, max) ==
    IF IsInf(f) THEN max
    ELSE IF Exp(f) >= 0 THEN ShiftLeftSat(Sig(f), Exp(f), max)
    ELSE ShiftRightSat(Sig(f), 0 - Exp(f), max)

I32Max == 2147483647
U8Max == 255

\* Rust's `as i32` from f32: NaN is 0, the rest truncates and saturates.
\* (i32::MIN itself is not representable here; the model never comes near.)
ToI32(f) ==
    IF IsNaN(f) THEN 0
    ELSE IF f.s = 1 THEN 0 - TruncMag(f, I32Max)
    ELSE TruncMag(f, I32Max)

\* Rust's `as u8` from f32: NaN is 0, negatives are 0, the rest truncates
\* and saturates at 255.
ToU8(f) ==
    IF IsNaN(f) THEN 0
    ELSE IF f.s = 1 THEN 0
    ELSE TruncMag(f, U8Max)

(***************************************************************************)
(* f32: exp                                                                *)
(***************************************************************************)
\* f32::exp at the finite nonzero arguments gaussian_filter passes it in
\* this model, -(x*x + y*y) / (2 * sigma * sigma) for the sigmas of Params
\* (and their products k * sigma) and offsets up to 3: the correctly rounded
\* value of e^t.  Any other argument is outside the table, and TLC stops.
ExpTable ==
    F32(1, 122, 6524473) :> F32(0, 126, 7481958)
 @@ F32(1, 123, 6524473) :> F32(0, 126, 6624304)
 @@ F32(1, 124, 0) :> F32(0, 126, 6417233)
 @@ F32(1, 124, 6524473) :> F32(0, 126, 5045536)
 @@ F32(1, 125, 0) :> F32(0, 126, 4677501)
 @@ F32(1, 125, 932068) :> F32(0, 126, 4319548)
 @@ F32(1, 125, 6524473) :> F32(0, 126, 2368614)
 @@ F32(1, 126, 0) :> F32(0, 126, 1787288)
 @@ F32(1, 126, 932068) :> F32(0, 126, 1237377)
 @@ F32(1, 126, 2097152) :> F32(0, 126, 591589)
 @@ F32(1, 126, 3728270) :> F32(0, 125, 7907833)
 @@ F32(1, 126, 6524473) :> F32(0, 125, 5406031)
 @@ F32(1, 127, 0) :> F32(0, 125, 3955378)
 @@ F32(1, 127, 932068) :> F32(0, 125, 2657275)
 @@ F32(1, 127, 1048576) :> F32(0, 125, 2504921)
 @@ F32(1, 127, 2097152) :> F32(0, 125, 1224898)
 @@ F32(1, 127, 5242880) :> F32(0, 124, 4825911)
 @@ F32(1, 127, 6524473) :> F32(0, 124, 2953683)
 @@ F32(1, 128, 0) :> F32(0, 124, 693589)
 @@ F32(1, 128, 932068) :> F32(0, 123, 6156300)
 @@ F32(1, 128, 1048576) :> F32(0, 123, 5757836)
 @@ F32(1, 128, 2097152) :> F32(0, 123, 2628654)
 @@ F32(1, 128, 3728270) :> F32(0, 122, 6546604)
 @@ F32(1, 128, 6524473) :> F32(0, 121, 6947378)
 @@ F32(1, 129, 0) :> F32(0, 121, 1444526)
 @@ F32(1, 129, 932068) :> F32(0, 120, 4221014)
 @@ F32(1, 129, 1048576) :> F32(0, 120, 3539586)
 @@ F32(1, 129, 2097152) :> F32(0, 119, 6081023)
 @@ F32(1, 129, 3262236) :> F32(0, 118, 8215396)
 @@ F32(1, 129, 5242880) :> F32(0, 117, 4525836)
 @@ F32(1, 129, 6524473) :> F32(0, 116, 5629956)
 @@ F32(1, 130, 0) :> F32(0, 115, 3137800)
 @@ F32(1, 130, 932068) :> F32(0, 114, 1088684)
 @@ F32(1, 130, 1048576) :> F32(0, 114, 92049)
 @@ F32(1, 130, 2097152) :> F32(0, 112, 4090830)
 @@ F32(1, 130, 3262236) :> F32(0, 110, 8043972)
 @@ F32(1, 130, 3728270) :> F32(0, 110, 2147638)
 @@ F32(1, 131, 0) :> F32(0, 103, 7449310)
 @@ F32(1, 131, 1048576) :> F32(0, 101, 185108)
 @@ F32(1, 131, 2097152) :> F32(0, 98, 894003)
 @@ F32(1, 131, 3262236) :> F32(0, 94, 7706416)
 @@ F32(1, 131, 5242880) :> F32(0, 89, 3392149)
 @@ F32(1, 131, 6174947) :> F32(0, 86, 7540248)
 @@ F32(1, 132, 1048576) :> F32(0, 75, 374301)
 @@ F32(1, 132, 3262236) :> F32(0, 62, 7051964)
 @@ F32(1, 132, 4718591) :> F32(0, 54, 6892581)
 @@ F32(1, 132, 6174947) :> F32(0, 46, 6734786)
 @@ F32(1, 133, 1077703) :> F32(0, 22, 6271165)
 @@ F32(1, 133, 4718591) :> F32(0, 0, 27)

exp(f) ==
    IF IsNaN(f) THEN NaN
    ELSE IF IsInf(f) THEN (IF f.s = 1 THEN Zero(0) ELSE Inf(0))
    ELSE IF IsZero(f) THEN IntToF32(1)
    ELSE ExpTable[f]

(***************************************************************************)
(* The filter's helpers, src/main.rs lines 18 to 55                        *)
(***************************************************************************)
\* std::f32::consts::PI, 3.14159274 (0x40490FDB)
PI == F32(0, 128, 4788187)

gaussian_filter(x, y, sigma) ==
    LET a == Mul(Mul(Mul(IntToF32(2), PI), sigma), sigma)
        b == Mul(Mul(IntToF32(2), sigma), sigma)
    IN  Div(exp(Div(Neg(Add(Mul(x, x), Mul(y, y))), b)), a)

\* clamp with its second branch returning the wrong bound
clamp_swapped(n, min, max) ==
    IF Lt(n, min) THEN min
    ELSE IF Gt(n, max) THEN min
    ELSE n

clamp(n, min, max) ==
    IF Lt(n, min) THEN min
    ELSE IF Gt(n, max) THEN max
    ELSE n

\* A pixel is Rgba<u8>, <<r, g, b, a>>; a Vector::<f32> of size 3 is <<x, y, z>>.
\* color_to_vector reading the channels in the order b, g, r
color_to_vector_bgr(color) ==
    << Div(IntToF32(color[3]), IntToF32(U8Max)),
       Div(IntToF32(color[2]), IntToF32(U8Max)),
       Div(IntToF32(color[1]), IntToF32(U8Max)) >>

color_to_vector(color) ==
    << Div(IntToF32(color[1]), IntToF32(U8Max)),
       Div(IntToF32(color[2]), IntToF32(U8Max)),
       Div(IntToF32(color[3]), IntToF32(U8Max)) >>

vector_to_color(vector) ==
    << ToU8(Mul(clamp(vector[1], Zero(0), IntToF32(1)), IntToF32(U8Max))),
       ToU8(Mul(clamp(vector[2], Zero(0), IntToF32(1)), IntToF32(U8Max))),
       ToU8(Mul(clamp(vector[3], Zero(0), IntToF32(1)), IntToF32(U8Max))),
       U8Max >>

\* leonhard's Vector::<f32>::new(3), Vector * f32 and Vector += Vector.
VectorNew == <<Zero(0), Zero(0), Zero(0)>>
VectorScale(v, n) == <<Mul(v[1], n), Mul(v[2], n), Mul(v[3], n)>>
VectorAdd(u, v) == <<Add(u[1], v[1]), Add(u[2], v[2]), Add(u[3], v[3])>>

(***************************************************************************)
(* Images                                                                  *)
(***************************************************************************)
\* A DynamicImage: its width, its height and the Rgba pixel get_pixel
\* returns at each <<x, y>>.
Coords(w, h) == (0..(w - 1)) \X (0..(h - 1))

\* DynamicImage::new_rgb8: every pixel zero; an Rgb8 buffer holds no alpha,
\* and get_pixel reads it as 255.
new_rgb8(w, h) ==
    [width |-> w, height |-> h, px |-> [p \in Coords(w, h) |-> <<0, 0, 0, U8Max>>]]

get_pixel(img, x, y) == img.px[<<x, y>>]

\* put_pixel on an Rgb8 image keeps the three colour channels.
put_pixel(img, x, y, c) ==
    [img EXCEPT !.px[<<x, y>>] = <<c[1], c[2], c[3], U8Max>>]

(***************************************************************************)
(* difference_of_gaussian, src/main.rs lines 57 to 86                      *)
(***************************************************************************)
max(a, b) == IF a >= b THEN a ELSE b

\* line 59
Radius(sigma, k) ==
    max(ToI32(Mul(sigma, sigma)), ToI32(Mul(Mul(k, sigma), Mul(k, sigma))))

\* The range with its upper end included, `-radius..=radius`
WindowRangeInclusive(radius) == (0 - radius)..radius

\* `for i in -radius..radius`: the half-open range of lines 65 and 66
WindowRange(radius) == (0 - radius)..(radius - 1)

WindowSize(radius) == Cardinality(WindowRange(radius))

\* The condition with `>` for `>=` on the width
SkipOffByOne(img, x, y, i, j) ==
    \/ x + i < 0
    \/ y + j < 0
    \/ x + i > img.width
    \/ y + j >= img.height

\* The condition of lines 67 to 70, under which offset (i, j) is skipped.
Skip(img, x, y, i, j) ==
    \/ x + i < 0
    \/ y + j < 0
    \/ x + i >= img.width
    \/ y + j >= img.height

\* The source coordinates get_pixel is called with for output pixel (x, y).
Reads(img, radius, x, y) ==
    {<<x + o[1], y + o[2]>> : o \in
        {w \in WindowRange(radius) \X WindowRange(radius) : ~Skip(img, x, y, w[1], w[2])}}

\* lines 75 and 76
Gauss(i, j, sigma, k) ==
    Sub(gaussian_filter(IntToF32(i), IntToF32(j), Mul(k, sigma)),
        gaussian_filter(IntToF32(i), IntToF32(j), sigma))

\* The offsets the loops of lines 65 and 66 visit, in their order: i
\* outermost, j innermost, both ascending.
Offsets(radius) ==
    [n \in 1..(WindowSize(radius) * WindowSize(radius)) |->
        << ((n - 1) \div WindowSize(radius)) - radius,
           ((n - 1) % WindowSize(radius)) - radius >>]

\* Those of them line 71 does not skip for output pixel (x, y).
Sampled(img, radius, x, y) ==
    LET Kept(o) == ~Skip(img, x, y, o[1], o[2])
    IN  SelectSeq(Offsets(radius), Kept)

\* `color` after the first n sampled offsets os: lines 74 to 77 for each.
RECURSIVE Accumulate(_, _, _, _, _, _, _)
Accumulate(img, sigma, k, x, y, os, n) ==
    IF n = 0 THEN VectorNew
    ELSE VectorAdd(Accumulate(img, sigma, k, x, y, os, n - 1),
                   VectorScale(color_to_vector(get_pixel(img, x + os[n][1], y + os[n][2])),
                               Gauss(os[n][1], os[n][2], sigma, k)))

\* `color` when line 81 runs for output pixel (x, y).
PixelColor(img, sigma, k, radius, x, y) ==
    Accumulate(img, sigma, k, x, y, Sampled(img, radius, x, y),
               Len(Sampled(img, radius, x, y)))

\* The result allocated with width and height exchanged
NewResultTransposed(img) == new_rgb8(img.height, img.width)

\* line 58
NewResult(img) == new_rgb8(img.width, img.height)

\* Lines 63 to 81 for output pixel (x, y): the pixel put_pixel is given.
\* (`color` is bound to its value, as `let mut color` binds it, before line
\* 81 reads it.)
PixelOut(img, sigma, k, radius, x, y) ==
    CHOOSE c \in { vector_to_color(color) :
                     color \in {PixelColor(img, sigma, k, radius, x, y)} } : TRUE

\* The whole function: the image it returns.
difference_of_gaussian(img, sigma, k) ==
    [width |-> NewResult(img).width, height |-> NewResult(img).height,
     px |-> [p \in DOMAIN NewResult(img).px |->
               IF p \in Coords(img.width, img.height)
               THEN get_pixel(put_pixel(NewResult(img), p[1], p[2],
                                PixelOut(img, sigma, k, Radius(sigma, k), p[1], p[2])),
                              p[1], p[2])
               ELSE NewResult(img).px[p]]]

(***************************************************************************)
(* Bounds and inputs                                                       *)
(***************************************************************************)
MaxW == 2
MaxH == 2
MaxArgs == 3

\* Input pixels: black, white, red, and a mixed colour that is half
\* transparent (the filter never reads alpha).
Palette ==
    { <<0, 0, 0, 255>>, <<255, 255, 255, 255>>, <<255, 0, 0, 255>>, <<10, 128, 200, 128>> }

\* The colour of all the pixels of an image but perhaps one: black or white.
Backgrounds == { <<0, 0, 0, 255>>, <<255, 255, 255, 255>> }

\* Every image of up to MaxW x MaxH pixels (empty ones included) that is
\* uniform in a colour of Palette, or of a background colour but for one
\* pixel of a colour of Palette.
Images ==
    UNION { { [width |-> w, height |-> h, px |-> [p \in Coords(w, h) |-> b]] : b \in Palette }
            \cup { [width |-> w, height |-> h,
                    px |-> [p \in Coords(w, h) |-> IF p = q THEN c ELSE b]] :
                   q \in Coords(w, h), c \in Palette, b \in Backgrounds }
          : w \in 0..MaxW, h \in 0..MaxH }

\* f32 literals
F3 == IntToF32(3)
FHalf == F32(0, 126, 0)
F0_3 == F32(0, 125, 1677722)
F1_5 == F32(0, 127, 4194304)

\* The (sigma, k) the filter is called with: main's own (3, 0.5); k > 1;
\* k < 1 with a narrow second Gaussian; both variances below 1; and the
\* parameters the specification calls invalid: sigma = 0, k = 0, sigma < 0.
Params ==
    { <<F3, FHalf>>,
      <<IntToF32(1), IntToF32(2)>>,
      <<IntToF32(1), F0_3>>,
      <<FHalf, F1_5>>,
      <<Zero(0), IntToF32(2)>>,
      <<IntToF32(2), Zero(0)>>,
      <<IntToF32(-1), IntToF32(2)>> }

(***************************************************************************)
(* State                                                                   *)
(***************************************************************************)
VARIABLES
    \* one call of difference_of_gaussian
    img, sigma, k,      \* its arguments
    result, radius,     \* lines 58 and 59
    x, y,               \* the output pixel the loops of lines 61 and 62 are at
    color,              \* `color` as line 81 last read it
    reads,              \* the coordinates line 74 read for that pixel
    last,               \* the arguments of the last put_pixel of line 81
    puts,               \* how many times line 81 has run
    pc,                 \* "call", "loop", "done", or "panic"
    \* one run of main
    args,               \* the command line after the program's name
    argi,               \* `i` of line 116
    images, width, height,   \* lines 113 to 115
    final_image,        \* line 134
    si,                 \* the index the loop of line 135 is at
    stderr,             \* the diagnostics printed
    saved, output,      \* whether output.jpg was written, and the image written
    exit_status,        \* the process's exit status once mpc = "exit"
    mpc,                \* "start", "load", "stack", "overlay", "save", "exit"
    \* one round trip through the colour mapping
    cm_in, cm_vec, cm_out, cm_pc

dog_vars == <<img, sigma, k, result, radius, x, y, color, reads, last, puts, pc>>
main_vars == <<args, argi, images, width, height, final_image, si, stderr, saved, output,
               exit_status, mpc>>
cm_vars == <<cm_in, cm_vec, cm_out, cm_pc>>
vars == <<dog_vars, main_vars, cm_vars>>

(***************************************************************************)
(* One call of difference_of_gaussian, a pixel at a time                   *)
(***************************************************************************)
DogIdle ==
    /\ img = new_rgb8(0, 0)
    /\ sigma = Zero(0)
    /\ k = Zero(0)
    /\ result = new_rgb8(0, 0)
    /\ radius = 0
    /\ x = 0
    /\ y = 0
    /\ color = VectorNew
    /\ reads = {}
    /\ last = [x |-> 0, y |-> 0, pixel |-> <<0, 0, 0, 0>>]
    /\ puts = 0
    /\ pc = "idle"

DogCall ==
    /\ img \in Images
    /\ \E p \in Params : sigma = p[1] /\ k = p[2]
    /\ result = new_rgb8(0, 0)
    /\ radius = 0
    /\ x = 0
    /\ y = 0
    /\ color = VectorNew
    /\ reads = {}
    /\ last = [x |-> 0, y |-> 0, pixel |-> <<0, 0, 0, 0>>]
    /\ puts = 0
    /\ pc = "call"

\* lines 58 and 59, and the loops' entry
Enter ==
    /\ pc = "call"
    /\ result' = NewResult(img)
    /\ radius' = Radius(sigma, k)
    /\ pc' = IF img.width = 0 \/ img.height = 0 THEN "done" ELSE "loop"
    /\ UNCHANGED <<img, sigma, k, x, y, color, reads, last, puts>>

\* One pass of the body of the loop of line 62, lines 63 to 81, and the
\* loops' step.  get_pixel and put_pixel panic outside their image.
PixelStep ==
    /\ pc = "loop"
    /\ reads' = Reads(img, radius, x, y)
    /\ IF /\ Reads(img, radius, x, y) \subseteq Coords(img.width, img.height)
          /\ <<x, y>> \in Coords(result.width, result.height)
       THEN /\ color' = PixelColor(img, sigma, k, radius, x, y)
            /\ last' = [x |-> x, y |-> y, pixel |-> vector_to_color(color')]
            /\ puts' = puts + 1
            /\ result' = put_pixel(result, x, y, last'.pixel)
            /\ IF y + 1 < img.height
               THEN /\ y' = y + 1
                    /\ UNCHANGED <<x, pc>>
               ELSE IF x + 1 < img.width
               THEN /\ x' = x + 1
                    /\ y' = 0
                    /\ UNCHANGED pc
               ELSE /\ pc' = "done"
                    /\ UNCHANGED <<x, y>>
       ELSE /\ pc' = "panic"
            /\ UNCHANGED <<result, x, y, color, last, puts>>
    /\ UNCHANGED <<img, sigma, k, radius>>

(***************************************************************************)
(* One round trip through color_to_vector and vector_to_color              *)
(***************************************************************************)
\* Pixels in which every channel takes every value of 0..255.
Pixels ==
    { <<c, (c + d) % (U8Max + 1), U8Max - c, a>> :
        c \in 0..U8Max, d \in {0, 1, 128}, a \in {0, U8Max} }

CmIdle ==
    /\ cm_in = <<0, 0, 0, 0>>
    /\ cm_vec = VectorNew
    /\ cm_out = <<0, 0, 0, 0>>
    /\ cm_pc = "idle"

CmStart ==
    /\ cm_in \in Pixels
    /\ cm_vec = VectorNew
    /\ cm_out = <<0, 0, 0, 0>>
    /\ cm_pc = "pixel"

ToVector ==
    /\ cm_pc = "pixel"
    /\ cm_vec' = color_to_vector(cm_in)
    /\ cm_pc' = "vector"
    /\ UNCHANGED <<cm_in, cm_out>>

ToColor ==
    /\ cm_pc = "vector"
    /\ cm_out' = vector_to_color(cm_vec)
    /\ cm_pc' = "back"
    /\ UNCHANGED <<cm_in, cm_vec>>

(***************************************************************************)
(* main, src/main.rs lines 106 to 145                                      *)
(***************************************************************************)
\* The sizes of the image files.
FileSizes == { <<1, 1>>, <<1, 2>>, <<2, 1>>, <<2, 2>> }

\* The files a path of the command line may name: one image of each size of
\* FileSizes, and two that do not decode.
Files ==
    { [kind |-> "image", w |-> s[1], h |-> s[2]] : s \in FileSizes }
    \cup { [kind |-> "missing", w |-> 0, h |-> 0], [kind |-> "corrupt", w |-> 0, h |-> 0] }

\* The decoded content of an image file: a colour ramp.
Decoded(file) ==
    [width |-> file.w, height |-> file.h,
     px |-> [p \in Coords(file.w, file.h) |->
               <<U8Max - 100 * p[1], 120 * p[2] + 15, 60 * (p[1] + p[2]), U8Max>>]]

\* open_image, lines 14 to 16: an ImageResult
open_image(file) ==
    IF file.kind = "image"
    THEN [is_err |-> FALSE, img |-> Decoded(file)]
    ELSE [is_err |-> TRUE, img |-> new_rgb8(0, 0)]

\* The arguments after the program's name, up to MaxArgs of them.
ArgLists == UNION { [1..n -> Files] : n \in 0..MaxArgs }

\* The loop stopping one argument early
LastArgShort(a) == Len(a) - 1

\* The last index of the loop of line 116, `1..args.len()`, args[0] being the
\* program's name.
LastArg(a) == Len(a)

\* line 127: the offset of the image just filtered
OffsetY(h) == h

\* The canvas's width without the max
CanvasWidthLast(w, img_post) == img_post.width

\* lines 128 and 129: the canvas's size with that image
CanvasWidth(w, img_post) == max(w, img_post.width)
CanvasHeight(h, img_post) == h + img_post.height

\* imageops::overlay(bottom, top, x, y) for an opaque top image
overlay(bottom, top, ox, oy) ==
    [bottom EXCEPT !.px =
        [p \in DOMAIN bottom.px |->
            IF /\ p[1] - ox \in 0..(top.width - 1)
               /\ p[2] - oy \in 0..(top.height - 1)
            THEN top.px[<<p[1] - ox, p[2] - oy>>]
            ELSE bottom.px[p]]]

MainIdle ==
    /\ args = <<>>
    /\ argi = 0
    /\ images = <<>>
    /\ width = 0
    /\ height = 0
    /\ final_image = new_rgb8(0, 0)
    /\ si = 0
    /\ stderr = <<>>
    /\ saved = FALSE
    /\ output = new_rgb8(0, 0)
    /\ exit_status = 0
    /\ mpc = "idle"

MainStart ==
    /\ args \in ArgLists
    /\ argi = 0
    /\ images = <<>>
    /\ width = 0
    /\ height = 0
    /\ final_image = new_rgb8(0, 0)
    /\ si = 0
    /\ stderr = <<>>
    /\ saved = FALSE
    /\ output = new_rgb8(0, 0)
    /\ exit_status = 0
    /\ mpc = "start"

\* lines 107 to 115
CheckArgs ==
    /\ mpc = "start"
    /\ IF Len(args) = 0
       THEN /\ stderr' = Append(stderr, <<"Please specify one or several images!">>)
            /\ exit_status' = 1
            /\ mpc' = "exit"
            /\ UNCHANGED argi
       ELSE /\ argi' = 1
            /\ mpc' = IF 1 <= LastArg(args) THEN "load" ELSE "stack"
            /\ UNCHANGED <<stderr, exit_status>>
    /\ UNCHANGED <<args, images, width, height, final_image, si, saved, output>>

\* One pass of the loop of line 116, lines 117 to 131
Load ==
    /\ mpc = "load"
    /\ IF open_image(args[argi]).is_err
       THEN /\ stderr' = Append(stderr, <<"Failed to open image", args[argi]>>)
            /\ exit_status' = 1
            /\ mpc' = "exit"
            /\ UNCHANGED <<argi, images, width, height>>
       ELSE /\ images' = Append(images,
                          [img |-> difference_of_gaussian(open_image(args[argi]).img, F3, FHalf),
                           y |-> OffsetY(height)])
            /\ width' = CanvasWidth(width, images'[Len(images')].img)
            /\ height' = CanvasHeight(height, images'[Len(images')].img)
            /\ argi' = argi + 1
            /\ mpc' = IF argi + 1 <= LastArg(args) THEN "load" ELSE "stack"
            /\ UNCHANGED <<stderr, exit_status>>
    /\ UNCHANGED <<args, final_image, si, saved, output>>

\* line 134
Canvas ==
    /\ mpc = "stack"
    /\ final_image' = new_rgb8(width, height)
    /\ si' = 1
    /\ mpc' = IF 1 <= Len(images) THEN "overlay" ELSE "save"
    /\ UNCHANGED <<args, argi, images, width, height, stderr, saved, output, exit_status>>

\* One pass of the loop of line 135, line 136
Overlay ==
    /\ mpc = "overlay"
    /\ final_image' = overlay(final_image, images[si].img, 0, images[si].y)
    /\ si' = si + 1
    /\ mpc' = IF si + 1 <= Len(images) THEN "overlay" ELSE "save"
    /\ UNCHANGED <<args, argi, images, width, height, stderr, saved, output, exit_status>>

\* line 141, the save succeeding: main returns, and the status is 0
SaveOk ==
    /\ mpc = "save"
    /\ saved' = TRUE
    /\ output' = final_image
    /\ exit_status' = 0
    /\ mpc' = "exit"
    /\ UNCHANGED <<args, argi, images, width, height, final_image, si, stderr>>

\* lines 141 to 144, the save failing
SaveErr ==
    /\ mpc = "save"
    /\ stderr' = Append(stderr, <<"Failed to save image!">>)
    /\ exit_status' = 1
    /\ mpc' = "exit"
    /\ UNCHANGED <<args, argi, images, width, height, final_image, si, saved, output>>

(***************************************************************************)
(* Specifications                                                          *)
(***************************************************************************)
\* Calls of difference_of_gaussian on every image of Images with every
\* (sigma, k) of Params.
Init == DogCall /\ MainIdle /\ CmIdle
Next ==
    \/ Enter /\ UNCHANGED <<main_vars, cm_vars>>
    \/ PixelStep /\ UNCHANGED <<main_vars, cm_vars>>
Spec == Init /\ [][Next]_vars

\* Runs of main on every command line of ArgLists.
MainInit == DogIdle /\ MainStart /\ CmIdle
MainNext ==
    \/ CheckArgs /\ UNCHANGED <<dog_vars, cm_vars>>
    \/ Load /\ UNCHANGED <<dog_vars, cm_vars>>
    \/ Canvas /\ UNCHANGED <<dog_vars, cm_vars>>
    \/ Overlay /\ UNCHANGED <<dog_vars, cm_vars>>
    \/ SaveOk /\ UNCHANGED <<dog_vars, cm_vars>>
    \/ SaveErr /\ UNCHANGED <<dog_vars, cm_vars>>
MainSpec == MainInit /\ [][MainNext]_vars

\* Round trips of every pixel of Pixels through the colour mapping.
CmInit == DogIdle /\ MainIdle /\ CmStart
CmNext ==
    \/ ToVector /\ UNCHANGED <<dog_vars, main_vars>>
    \/ ToColor /\ UNCHANGED <<dog_vars, main_vars>>
CmSpec == CmInit /\ [][CmNext]_vars

(***************************************************************************)
(* Properties of difference_of_gaussian (under Spec)                       *)
(***************************************************************************)
F0 == Zero(0)
F1 == IntToF32(1)

Entered == pc \in {"loop", "done", "panic"}

\* The source pixels inside the image whose offset from output pixel (px, py)
\* lies in [-r, r) on both axes.
InWindow(w, h, r, px, py) ==
    { p \in Coords(w, h) :
        /\ 0 - r <= p[1] - px /\ p[1] - px < r
        /\ 0 - r <= p[2] - py /\ p[2] - py < r }

\* C1: the image difference_of_gaussian builds and returns has the width and
\* the height of its input, whatever the image, sigma and k.
C1_SameDimensions ==
    Entered =>
        /\ result.width = img.width
        /\ result.height = img.height
        /\ DOMAIN result.px = Coords(img.width, img.height)

C1_Witness ==
    /\ pc = "done"
    /\ img.width = 2
    /\ img.height = 1
    /\ result.width = 2
    /\ result.height = 1
    /\ puts = 2

\* C2: every pixel line 81 writes has its three colour bytes in 0..255, 0 for
\* an accumulated channel below 0 and 255 for one above 1, and alpha 255.
C2_Clamped ==
    puts > 0 =>
        /\ \A c \in 1..3 :
            /\ last.pixel[c] \in 0..U8Max
            /\ Lt(color[c], F0) => last.pixel[c] = 0
            /\ Gt(color[c], F1) => last.pixel[c] = U8Max
        /\ last.pixel[4] = U8Max
        /\ result.px[<<last.x, last.y>>] = last.pixel

\* One written pixel with a channel accumulated below 0 and another above 1.
C2_Witness ==
    /\ puts > 0
    /\ \E a, b \in 1..3 :
        /\ Lt(color[a], F0) /\ last.pixel[a] = 0
        /\ Gt(color[b], F1) /\ last.pixel[b] = U8Max

\* f <= 0
NotPositive(f) == Lt(f, F0) \/ IsZero(f)

\* C3: a call with sigma <= 0 or k <= 0 fails with InvalidParameter; it never
\* completes normally with an output image.
C3_InvalidParameterRejected ==
    (NotPositive(sigma) \/ NotPositive(k)) => pc # "done"

Uniform(i) == \A p, q \in DOMAIN i.px : i.px[p] = i.px[q]

\* C6: for a uniform input image and sigma > 0, k > 0, every channel of every
\* output pixel, borders and corners included, is 0 to within 1.
C6_UniformGivesZero ==
    (pc = "done" /\ Uniform(img) /\ Gt(sigma, F0) /\ Gt(k, F0)) =>
        \A p \in DOMAIN result.px : \A c \in 1..3 : result.px[p][c] <= 1

\* C7: for every output pixel the pixels read are exactly the pixels of the
\* image at an offset in [-radius, radius) on both axes: no read is out of
\* bounds (get_pixel never panics), and an offset outside the image adds
\* nothing: a window that holds one pixel of the image leaves `color` at
\* that pixel's colour times its weight, an empty one at zero.
C7_ReadsInBounds ==
    /\ pc # "panic"
    /\ puts > 0 =>
        /\ reads \subseteq Coords(img.width, img.height)
        /\ reads = InWindow(img.width, img.height, radius, last.x, last.y)
        /\ reads = {} => color = VectorNew
        /\ reads = {<<last.x, last.y>>} =>
             color = VectorAdd(VectorNew,
                        VectorScale(color_to_vector(img.px[<<last.x, last.y>>]),
                                    Gauss(0, 0, sigma, k)))

\* A pixel whose window leaves the image on one side and holds two or more
\* of its pixels.
C7_Witness ==
    /\ puts > 0
    /\ radius >= 1
    /\ Cardinality(reads) >= 2
    /\ last.x - radius < 0
    /\ pc # "panic"

\* C10: radius is the integer part of the larger of sigma^2 and (k*sigma)^2;
\* the window is half open (offset -radius is sampled, +radius never); and
\* when both squares are below 1 the window is empty and the output is
\* opaque black whatever the input.
C10_Window ==
    Entered =>
        /\ Lt(Mul(sigma, sigma), IntToF32(radius + 1))
        /\ Lt(Mul(Mul(k, sigma), Mul(k, sigma)), IntToF32(radius + 1))
        /\ \/ ~Lt(Mul(sigma, sigma), IntToF32(radius))
           \/ ~Lt(Mul(Mul(k, sigma), Mul(k, sigma)), IntToF32(radius))
        /\ puts > 0 =>
            /\ <<last.x + radius, last.y>> \notin reads
            /\ <<last.x, last.y + radius>> \notin reads
            /\ (radius > 0 /\ last.x - radius >= 0) => <<last.x - radius, last.y>> \in reads
            /\ (radius > 0 /\ last.y - radius >= 0) => <<last.x, last.y - radius>> \in reads
        /\ (Lt(Mul(sigma, sigma), F1) /\ Lt(Mul(Mul(k, sigma), Mul(k, sigma)), F1)) =>
            /\ radius = 0
            /\ puts > 0 => reads = {} /\ last.pixel = <<0, 0, 0, U8Max>>
            /\ pc = "done" => \A p \in DOMAIN result.px : result.px[p] = <<0, 0, 0, U8Max>>

\* A finished call with both squares below 1 on an image that is not black.
C10_Witness ==
    /\ pc = "done"
    /\ Gt(sigma, F0)
    /\ Lt(Mul(sigma, sigma), F1)
    /\ Lt(Mul(Mul(k, sigma), Mul(k, sigma)), F1)
    /\ \E p \in DOMAIN img.px : img.px[p] = <<255, 255, 255, 255>>
    /\ \A p \in DOMAIN result.px : result.px[p] = <<0, 0, 0, U8Max>>

(***************************************************************************)
(* The two-pass pipeline of the specification, sections 4.1 to 4.3         *)
(***************************************************************************)
\* The least integer that is not below f
Ceil(f) == IF Lt(IntToF32(ToI32(f)), f) THEN ToI32(f) + 1 ELSE ToI32(f)

\* The named radius policy: ceil(3 * sigma)
kernelRadius(s) == Ceil(Mul(IntToF32(3), s))

\* weight(dx, dy, sigma) = exp(-(dx^2 + dy^2) / (2 sigma^2)) / (2 pi sigma^2)
weight(dx, dy, s) == gaussian_filter(IntToF32(dx), IntToF32(dy), s)

VectorSub(u, v) == <<Sub(u[1], v[1]), Sub(u[2], v[2]), Sub(u[3], v[3])>>

\* The sum of color(x+i, y+j) * weight(i, j, s) over the first n offsets of
\* os, the offsets of the window that fall inside the image.
RECURSIVE blurSum(_, _, _, _, _, _)
blurSum(image, s, px, py, os, n) ==
    IF n = 0 THEN VectorNew
    ELSE VectorAdd(blurSum(image, s, px, py, os, n - 1),
                   VectorScale(color_to_vector(image.px[<<px + os[n][1], py + os[n][2]>>]),
                               weight(os[n][1], os[n][2], s)))

\* blur(image, sigma): each Gaussian over its own window, mapped to 8 bits
blur(image, s) ==
    [width |-> image.width, height |-> image.height,
     px |-> [p \in Coords(image.width, image.height) |->
               vector_to_color(
                   blurSum(image, s, p[1], p[2],
                           Sampled(image, kernelRadius(s), p[1], p[2]),
                           Len(Sampled(image, kernelRadius(s), p[1], p[2]))))]]

\* difference(imageA, imageB): A - B channel by channel, clamped on the way
\* back to 8 bits
difference(imageA, imageB) ==
    [width |-> imageA.width, height |-> imageA.height,
     px |-> [p \in DOMAIN imageA.px |->
               vector_to_color(VectorSub(color_to_vector(imageA.px[p]),
                                         color_to_vector(imageB.px[p])))]]

\* DoG(image, sigma, k) = difference(blur(image, k sigma), blur(image, sigma))
TwoPass(image, s, kk) == difference(blur(image, Mul(kk, s)), blur(image, s))

\* C8: for sigma > 0 and k > 0 the image difference_of_gaussian returns is
\* the two-pass result difference(blur(image, k*sigma), blur(image, sigma)).
C8_EqualsTwoPass ==
    (pc = "done" /\ Gt(sigma, F0) /\ Gt(k, F0)) => result = TwoPass(img, sigma, k)

(***************************************************************************)
(* Properties of the colour mapping (under CmSpec)                         *)
(***************************************************************************)
\* C9: a pixel taken through color_to_vector and then vector_to_color comes
\* back with each colour channel at most 1 away from where it started.
C9_RoundTrip ==
    cm_pc = "back" =>
        \A c \in 1..3 : cm_out[c] - cm_in[c] \in {0 - 1, 0, 1}

\* A completed round trip of a pixel whose three colour channels differ.
C9_Witness ==
    /\ cm_pc = "back"
    /\ cm_in = <<127, U8Max, 128, 0>>
    /\ cm_out[1] \in 126..128
    /\ cm_out[2] \in 254..U8Max
    /\ cm_out[3] \in 127..129

(***************************************************************************)
(* Properties of main (under MainSpec)                                     *)
(***************************************************************************)
\* The index of the first argument that does not decode, 0 when all do.
FirstBad(a) ==
    IF \E n \in 1..Len(a) : open_image(a[n]).is_err
    THEN CHOOSE n \in 1..Len(a) :
            /\ open_image(a[n]).is_err
            /\ \A m \in 1..(n - 1) : ~open_image(a[m]).is_err
    ELSE 0

\* C4: main is all or nothing.  With no argument it exits with status 1
\* having processed nothing.  If some argument does not decode, it stops at
\* the first such, with status 1 and a diagnostic naming that argument,
\* processes no later one and never saves output.jpg.  output.jpg is saved
\* only after every argument has been decoded and filtered.
C4_AllOrNothing ==
    /\ saved =>
        /\ Len(args) >= 1
        /\ FirstBad(args) = 0
        /\ Len(images) = Len(args)
        /\ exit_status = 0
    /\ mpc \in {"stack", "overlay", "save"} =>
        /\ FirstBad(args) = 0
        /\ Len(images) = Len(args)
    /\ (Len(args) = 0 /\ mpc # "start") =>
        /\ mpc = "exit"
        /\ exit_status = 1
        /\ images = <<>>
        /\ ~saved
    /\ FirstBad(args) > 0 =>
        /\ ~saved
        /\ mpc \in {"start", "load", "exit"}
        /\ Len(images) < FirstBad(args)
        /\ argi <= FirstBad(args)
        /\ mpc = "exit" =>
            /\ exit_status = 1
            /\ argi = FirstBad(args)
            /\ Len(images) = FirstBad(args) - 1
            /\ stderr = << <<"Failed to open image", args[FirstBad(args)]>> >>

\* A run of three arguments stopped at the second, which does not decode,
\* the first having been filtered and the third never opened.
C4_Witness ==
    /\ mpc = "exit"
    /\ Len(args) = 3
    /\ FirstBad(args) = 2
    /\ ~open_image(args[3]).is_err
    /\ Len(images) = 1
    /\ exit_status = 1
    /\ ~saved

RECURSIVE SumHeights(_, _)
SumHeights(ims, n) == IF n = 0 THEN 0 ELSE SumHeights(ims, n - 1) + ims[n].img.height

RECURSIVE MaxWidth(_, _)
MaxWidth(ims, n) ==
    IF n = 0 THEN 0
    ELSE IF ims[n].img.width > MaxWidth(ims, n - 1) THEN ims[n].img.width
    ELSE MaxWidth(ims, n - 1)

\* The images the loop of line 135 has overlaid so far.
Placed ==
    IF mpc = "overlay" THEN 1..(si - 1)
    ELSE IF mpc = "save" \/ saved THEN 1..Len(images)
    ELSE {}

\* C5: once n >= 1 images are processed the canvas is as wide as the widest
\* and as high as the sum of their heights; image i has the size of its
\* input and lies at x = 0, y = the sum of the heights of images 1..i-1;
\* the offsets increase strictly, the images' rows do not overlap and lie
\* inside the canvas, and the canvas holds each placed image's pixels there.
C5_Canvas ==
    /\ Len(images) >= 1 =>
        /\ width = MaxWidth(images, Len(images))
        /\ height = SumHeights(images, Len(images))
        /\ \A n \in 1..Len(images) :
            /\ images[n].img.width = args[n].w
            /\ images[n].img.height = args[n].h
            /\ images[n].y = SumHeights(images, n - 1)
            /\ images[n].y + images[n].img.height <= height
            /\ images[n].img.width <= width
        /\ \A n, m \in 1..Len(images) :
            n < m =>
                /\ images[n].y < images[m].y
                /\ images[n].y + images[n].img.height <= images[m].y
    /\ Placed # {} =>
        /\ final_image.width = width
        /\ final_image.height = height
        /\ \A n \in Placed : \A p \in DOMAIN images[n].img.px :
            final_image.px[<<p[1], images[n].y + p[2]>>] = images[n].img.px[p]
    /\ saved => output = final_image

\* A saved canvas of three images of which the second is the widest and the
\* last the narrowest.
C5_Witness ==
    /\ saved
    /\ Len(images) = 3
    /\ images[1].img.width = 1
    /\ images[2].img.width = 2
    /\ images[3].img.width = 1
    /\ images[1].img.height = 2
    /\ width = 2
    /\ height = images[1].img.height + images[2].img.height + images[3].img.height
    /\ images[3].y = images[1].img.height + images[2].img.height
    /\ output.px[<<0, images[3].y>>] = images[3].img.px[<<0, 0>>]

====
